---------------------------- MODULE Spec2Model ----------------------------
(***************************************************************************)
(* A model of the PostHog person bot tagger (src/src/index.js, which holds *)
(* both index.js and bot-data.js).                                         *)
(*                                                                         *)
(*   SpecRetry  fetchWithRetry, one loop iteration per step                *)
(*   SpecIndex  the IP index: addEntry calls, the final sort, lookups      *)
(*   SpecPlan   the loop body of processPersons on one row, run twice      *)
(*   Spec       start(): loadAllBotData, then processPersons page by page   *)
(*   FairSpec   Spec over small sources, with every ready step taken       *)
(*                                                                         *)
(* Each specification moves its own variables and leaves the others at     *)
(* their idle values.                                                      *)
(*                                                                         *)
(* Times are kept in ticks of 1/32 ms, so that the repeated *1.5 of the    *)
(* backoff (2000, 3000, 4500, 6750, 10125, 15187.5, ...) stays exact.      *)
(***************************************************************************)
EXTENDS Integers, Sequences, FiniteSets, TLC

VARIABLES
    call,      \* fetchWithRetry's locals: retries, backoff, and its position
    waits,     \* history: the sleep() durations of the running call, in order
    unhinted,  \* history: no failure of the running call carried a usable retry-after
    stats,     \* the global stats object (the counters the pipeline updates)
    singleIPs,    \* bot-data.js: Map of address text -> entry
    sortedRanges, \* bot-data.js: array of {start, end, data}
    frozen,       \* loadAllBotData has sorted the ranges and returned
    feed,         \* history: the addEntry calls made so far, in order
    lookup,       \* the last lookup made: address, singleIPs.get, findInRange
    row,       \* the query's row for one person (its stored properties included)
    plan,      \* what the loop body decided for row
    phase,     \* fetched -> planned -> stored (the patch applied) -> replanned
    pc,           \* where start() / processPersons stands
    isDryRun,     \* process.argv.includes('--dry-run')
    persons,      \* the analytics platform's persons, as the query groups them
    lastPersonId, \* processPersons' cursor
    eventBatch,   \* processPersons' buffer of events
    page,         \* the rows of data.results the for loop has not reached yet
    pushed,       \* history: the events pushed into eventBatch, in order
    sent,         \* history: the calls of sendBatch, in order
    fetches,      \* history: the cursor of each fetchHogQL call, in order
    seen          \* history: the ids of the rows the for loop has taken, in order

retryVars == <<call, waits, unhinted, stats>>

indexVars == <<singleIPs, sortedRanges, frozen, feed, lookup>>

planVars == <<row, plan, phase>>

pipeVars == <<pc, isDryRun, persons, lastPersonId, eventBatch, page, pushed, sent, fetches, seen>>

vars == <<retryVars, indexVars, planVars, pipeVars>>

Min(a, b) == IF a <= b THEN a ELSE b

(***************************************************************************)
(* Time                                                                    *)
(***************************************************************************)
TicksPerMs == 2 ^ 5

Ms(n) == n * TicksPerMs

(***************************************************************************)
(* fetchWithRetry (index.js 70-102)                                        *)
(***************************************************************************)
MAX_RETRIES == 10

INITIAL_BACKOFF_MS == 2000

BACKOFF_CAP_MS == 60000

\* The retry-after header as the transport delivers it: absent (or the empty
\* string), a decimal number of seconds, or text parseInt cannot read (an
\* HTTP date), for which parseInt gives NaN.
NoHeader == [present |-> FALSE, numeric |-> FALSE, secs |-> 0]

SecsHeader(n) == [present |-> TRUE, numeric |-> TRUE, secs |-> n]

DateHeader == [present |-> TRUE, numeric |-> FALSE, secs |-> 0]

\* What one invocation of fn() ends in: a value, an axios error with a
\* response (status, headers), or an error without a response.
OkResponse == [kind |-> "ok", status |-> 200, retryAfter |-> NoHeader]

HttpError(s, h) == [kind |-> "http", status |-> s, retryAfter |-> h]

NetworkError == [kind |-> "network", status |-> 0, retryAfter |-> NoHeader]

NoResponse == [kind |-> "none", status |-> 0, retryAfter |-> NoHeader]

\* error.response && error.response.status === 429
IsRateLimited(r) == r.kind = "http" /\ r.status = 429

\* (a slip that would take every 4xx for a server error)
IsServerErrorFrom400(r) == r.kind = "http" /\ r.status >= 400

\* error.response && error.response.status >= 500
IsServerError(r) == r.kind = "http" /\ r.status >= 500

IsRetryable(r) == IsRateLimited(r) \/ IsServerError(r)

\* headers['retry-after'] ? parseInt(headers['retry-after']) * 1000 : 0, and
\* then the test retryAfter > 0, which NaN fails.
HasUsableHint(r) ==
    /\ IsRateLimited(r)
    /\ r.retryAfter.present
    /\ r.retryAfter.numeric
    /\ r.retryAfter.secs * 1000 > 0

\* (a slip that would never wait less than the backoff)
WaitTimeAtLeastBackoff(r, backoff) ==
    IF HasUsableHint(r) /\ Ms(r.retryAfter.secs * 1000) > backoff
    THEN Ms(r.retryAfter.secs * 1000)
    ELSE backoff

\* const waitTime = retryAfter > 0 ? retryAfter : backoff   (429)
\* await sleep(backoff)                                      (5xx)
WaitTime(r, backoff) ==
    IF HasUsableHint(r) THEN Ms(r.retryAfter.secs * 1000) ELSE backoff

\* (a slip that would leave out the 60 s cap)
NextBackoffUncapped(backoff) == (backoff * 3) \div 2

\* backoff = Math.min(backoff * 1.5, 60000)
NextBackoff(backoff) == Min((backoff * 3) \div 2, Ms(BACKOFF_CAP_MS))

\* let retries = 0; let backoff = 2000;
NewCall ==
    [pc |-> "loop", retries |-> 0, backoff |-> Ms(INITIAL_BACKOFF_MS),
     attempts |-> 0, last |-> NoResponse]

\* while (retries < MAX_RETRIES)
LoopGuard(c) == c.retries < MAX_RETRIES

\* One iteration of the while loop: fn() is invoked and ends in r.
RetryStep(c, r) ==
    IF r.kind = "ok"
    THEN [c EXCEPT !.pc = "returned", !.attempts = @ + 1, !.last = r]
    ELSE IF IsRetryable(r)
    THEN [c EXCEPT !.retries = @ + 1,
                   !.backoff = NextBackoff(@),
                   !.attempts = @ + 1,
                   !.last = r]
    ELSE [c EXCEPT !.pc = "thrown", !.attempts = @ + 1, !.last = r]

\* throw new Error(`Max retries exceeded for ${context}`)
RetryExhausted(c) == [c EXCEPT !.pc = "maxed"]

(***************************************************************************)
(* The IP index (bot-data.js, index.js 422-763)                            *)
(*                                                                         *)
(* Addresses are AddrBits wide instead of 32; an address text is kept as   *)
(* the number of its dot-separated parts and the value its parts spell.    *)
(***************************************************************************)
AddrBits == 3

AddrSpace == 2 ^ AddrBits

\* undefined / null
None == "<none>"

IpText(v) == [parts |-> 4, val |-> v, text |-> "0.0.0." \o ToString(v)]

\* text that does not split into 4 parts (an IPv6 address, say)
BadIpText == [parts |-> 1, val |-> 0, text |-> "2001:db8::1"]

NoIp == [parts |-> 0, val |-> 0, text |-> None]

\* if (!ip || typeof ip !== 'string') return 0; if (parts.length !== 4) return 0;
ipToLong(ip) == IF ip.parts # 4 THEN 0 ELSE ip.val % AddrSpace

\* the range argument of addEntry: "" / "a.b.c.d" / "a.b.c.d/n"; numeric is
\* whether parseInt reads the text after the slash
SingleScope(ip) == [form |-> "single", ip |-> ip, numeric |-> FALSE, bits |-> 0]

CidrScope(ip, n) == [form |-> "cidr", ip |-> ip, numeric |-> TRUE, bits |-> n]

BadCidrScope(ip) == [form |-> "cidr", ip |-> ip, numeric |-> FALSE, bits |-> 0]

EmptyScope == [form |-> "empty", ip |-> NoIp, numeric |-> FALSE, bits |-> 0]

\* an addEntry call
FeedEntry(range, type, name, category, rating, source) ==
    [range |-> range, type |-> type, name |-> name, category |-> category,
     rating |-> rating, source |-> source]

NoEntry ==
    [range |-> EmptyScope, type |-> None, name |-> None, category |-> None,
     rating |-> None, source |-> None, datacenter |-> None]

Falsy(x) == x = None \/ x = ""

\* const newData = { range: cleanRange, type, name: name || 'Unknown', ... }
NewData(in) ==
    [range |-> in.range,
     type |-> in.type,
     name |-> IF Falsy(in.name) THEN "Unknown" ELSE in.name,
     category |-> IF Falsy(in.category) THEN "Uncategorized" ELSE in.category,
     rating |-> IF Falsy(in.rating) THEN "neutral" ELSE in.rating,
     source |-> in.source,
     datacenter |-> None]

\* const isGeneric = (n) => !n || n === 'Unknown' || n === 'Uncategorized';
isGeneric(n) == Falsy(n) \/ n = "Unknown" \/ n = "Uncategorized"

isDC(t) == t = "datacenter"

\* the upgrade without its inner condition: the last specific bot wins
MergeBotLastWins(merged, incoming) ==
    IF incoming.type = "bot" /\ ~isGeneric(incoming.name)
    THEN [merged EXCEPT !.name = incoming.name,
                        !.type = "bot",
                        !.category = incoming.category,
                        !.rating = incoming.rating,
                        !.source = @ \o " + " \o incoming.source]
    ELSE merged

\* if (incoming.type === 'bot' && !isGeneric(incoming.name)) { if (isDC(...) || isGeneric(...)) {...} }
MergeBotUpgrade(merged, incoming) ==
    IF /\ incoming.type = "bot"
       /\ ~isGeneric(incoming.name)
       /\ (isDC(merged.type) \/ isGeneric(merged.name))
    THEN [merged EXCEPT !.name = incoming.name,
                        !.type = "bot",
                        !.category = incoming.category,
                        !.rating = incoming.rating,
                        !.source = @ \o " + " \o incoming.source]
    ELSE merged

\* if (incoming.type === 'datacenter' && merged.type === 'bot') {...} else if (... 'datacenter') {...}
MergeDatacenter(merged, incoming) ==
    IF incoming.type = "datacenter" /\ merged.type = "bot"
    THEN [merged EXCEPT !.datacenter = incoming.name,
                        !.source = @ \o " (DC: " \o incoming.source \o ")"]
    ELSE IF /\ incoming.type = "datacenter"
            /\ merged.type = "datacenter"
            /\ isGeneric(merged.name)
            /\ ~isGeneric(incoming.name)
    THEN [merged EXCEPT !.name = incoming.name]
    ELSE merged

\* const merge = (existing, incoming) => {...}
merge(existing, incoming) ==
    IF existing = NoEntry
    THEN incoming
    ELSE MergeDatacenter(MergeBotUpgrade(existing, incoming), incoming)

\* 0xFFFFFFFF << (32 - bitmask): the shift count is taken modulo the width,
\* so a count of 32 (bitmask 0) shifts by 0; and x & (ones with the low c
\* bits cleared) is x - x mod 2^c.
RangeStart(ip, bitmask) ==
    LET c == (AddrBits - bitmask) % AddrBits
    IN  ipToLong(ip) - (ipToLong(ip) % (2 ^ c))

\* (start + (Math.pow(2, 32 - bitmask) - 1)) >>> 0
RangeEnd(start, bitmask) == (start + (2 ^ (AddrBits - bitmask) - 1)) % AddrSpace

\* sortedRanges.findIndex(r => r.start === start && r.end === end), 0 for -1
FindIndex(ranges, start, end) ==
    LET hits == {i \in 1..Len(ranges) :
                    ranges[i].start = start /\ ranges[i].end = end}
    IN  IF hits = {} THEN 0 ELSE CHOOSE i \in hits : \A j \in hits : i <= j

\* singleIPs.get(key)
SingleGet(map, key) == IF key \in DOMAIN map THEN map[key] ELSE NoEntry

\* singleIPs.set(key, value)
SingleSet(map, key, value) ==
    [k \in DOMAIN map \cup {key} |-> IF k = key THEN value ELSE map[k]]

\* the range list after addEntry(in), for a range with a slash
AddRange(ranges, in) ==
    LET start == RangeStart(in.range.ip, in.range.bits)
        end == RangeEnd(start, in.range.bits)
        idx == FindIndex(ranges, start, end)
    IN  IF ~in.range.numeric
        THEN ranges
        ELSE IF idx # 0
        THEN [ranges EXCEPT ![idx].data = merge(@, NewData(in))]
        ELSE Append(ranges, [start |-> start, end |-> end, data |-> NewData(in)])

\* the exact map after addEntry(in), for a range without a slash
AddSingle(map, in) ==
    SingleSet(map, in.range.ip, merge(SingleGet(map, in.range.ip), NewData(in)))

\* the sort left out: the ranges stay in their order of arrival
SortSkipped(ranges) == ranges

\* sortedRanges.sort((a, b) => a.start - b.start): a stable sort
RECURSIVE SortByStart(_)
SortByStart(ranges) ==
    IF Len(ranges) <= 1
    THEN ranges
    ELSE LET r == ranges[Len(ranges)]
             sorted == SortByStart(SubSeq(ranges, 1, Len(ranges) - 1))
             before == {i \in 1..Len(sorted) : sorted[i].start <= r.start}
             k == Cardinality(before)
         IN  SubSeq(sorted, 1, k) \o <<r>> \o SubSeq(sorted, k + 1, Len(sorted))

\* the while loop of findInRange
RECURSIVE BinarySearch(_, _, _, _)
BinarySearch(ranges, low, high, target) ==
    IF low > high
    THEN NoEntry
    ELSE LET mid == (low + high) \div 2
             range == ranges[mid]
         IN  IF target >= range.start /\ target <= range.end
             THEN range.data
             ELSE IF target < range.start
             THEN BinarySearch(ranges, low, mid - 1, target)
             ELSE BinarySearch(ranges, mid + 1, high, target)

\* function findInRange(ip): if (!target) return null;
findInRange(ranges, ip) ==
    IF ipToLong(ip) = 0
    THEN NoEntry
    ELSE BinarySearch(ranges, 1, Len(ranges), ipToLong(ip))

(***************************************************************************)
(* checkBot (index.js 124-209)                                             *)
(*                                                                         *)
(* A user agent is kept as what the code asks of it: whether it is truthy, *)
(* what isbot() and isbotMatch() of the isbot package answer for it, and   *)
(* which of the fixed substrings it includes.  A label is kept with its    *)
(* raw text, its trimmed text, the number of its alphanumeric characters   *)
(* and whether the trimmed text starts with PTST.                          *)
(***************************************************************************)
Label(raw, trimmed, alnum, ptst) ==
    [raw |-> raw, trimmed |-> trimmed, alnum |-> alnum, ptst |-> ptst]

NoLabel == Label(None, None, 0, FALSE)

UserAgent(text, bot, match, includes) ==
    [text |-> text, isbot |-> bot, match |-> match, includes |-> includes]

NoUserAgent == UserAgent(None, FALSE, NoLabel, {})

\* const result = { isBot: false, isGoodBot: undefined, ... }
NoAnalysis ==
    [isBot |-> FALSE, isGoodBot |-> "undefined", botName |-> None,
     botType |-> None, botSource |-> None, isDatacenter |-> FALSE,
     datacenterName |-> None]

\* a || b || ... on names: the first that is not falsy
OrElse(a, b) == IF Falsy(a) THEN b ELSE a

\* match = { ...rangeMatch, ...singleMatch, datacenter: ..., name: ..., source: ... }
CombineMatches(singleMatch, rangeMatch) ==
    [singleMatch EXCEPT
        !.datacenter =
            OrElse(singleMatch.datacenter,
                   OrElse(rangeMatch.datacenter,
                          IF rangeMatch.type = "datacenter"
                          THEN rangeMatch.name ELSE None)),
        !.name =
            IF ~Falsy(singleMatch.name) /\ singleMatch.name # "Unknown"
            THEN singleMatch.name
            ELSE IF rangeMatch.name # "Unknown" THEN rangeMatch.name ELSE "Unknown",
        !.source = singleMatch.source \o " + " \o rangeMatch.source]

\* let match = singleMatch; if (rangeMatch) { if (!match) match = rangeMatch; else ... }
IpMatch(singleMatch, rangeMatch) ==
    IF rangeMatch = NoEntry
    THEN singleMatch
    ELSE IF singleMatch = NoEntry
    THEN rangeMatch
    ELSE CombineMatches(singleMatch, rangeMatch)

untaggedNames == {"Firehol Blocklist", "Avastel Blocklist", "Unknown", "Uncategorized"}

\* the clean-up left out: the name is reported as it is
ScrubNothing(name) == name

\* if (untaggedNames.includes(x)) x = null
Scrub(name) == IF name \in untaggedNames THEN None ELSE name

\* if (match.type === 'bot') { ... }
ApplyBot(result, match) ==
    IF match.type = "bot"
    THEN [result EXCEPT
            !.isBot = TRUE,
            !.botName = IF ~Falsy(match.name) /\ match.name # "Unknown"
                        THEN match.name ELSE None,
            !.botType = IF ~Falsy(match.category) /\ match.category # "Uncategorized"
                        THEN match.category ELSE "Unknown",
            !.botSource = OrElse(match.source, "IP List"),
            !.isGoodBot = IF match.rating = "good" THEN "true"
                          ELSE IF match.rating = "bad" THEN "false"
                          ELSE @]
    ELSE result

\* if (match.type === 'datacenter' || match.datacenter) { ... }
ApplyDatacenter(result, match) ==
    IF match.type = "datacenter" \/ ~Falsy(match.datacenter)
    THEN [result EXCEPT !.isDatacenter = TRUE,
                        !.datacenterName = OrElse(match.datacenter, match.name)]
    ELSE result

\* the if (ip) { ... } block
CheckIp(result, singleMatch, rangeMatch) ==
    LET match == IpMatch(singleMatch, rangeMatch)
        r == ApplyDatacenter(ApplyBot(result, match), match)
    IN  IF match = NoEntry
        THEN result
        ELSE [r EXCEPT !.botName = Scrub(@), !.datacenterName = Scrub(@)]

\* the label of a user-agent match, after trim() and the fixed overrides
NormalizeLabel(ua) ==
    LET m0 == ua.match.trimmed
        m1 == IF "LinkCheck by Siteimprove.com" \in ua.includes
              THEN "LinkCheck by Siteimprove.com" ELSE m0
        m2 == IF "Sogou web spider" \in ua.includes THEN "Sogou web spider" ELSE m1
        m3 == IF "Archive-It" \in ua.includes THEN "Archive-It" ELSE m2
        m4 == IF m3 = m0 /\ ua.match.ptst THEN "PTST" ELSE m3
        m5 == IF m4 = "Url" /\ "LarkUrl" \in ua.includes THEN "LarkUrl" ELSE m4
    IN  IF m5 = "GoodBot" THEN None ELSE m5

\* if (!result.isBot && userAgent && isbot(userAgent)) { ... }
CheckUserAgent(result, ua) ==
    IF ~result.isBot /\ ~Falsy(ua.text) /\ ua.isbot
    THEN [result EXCEPT
            !.isBot = TRUE,
            !.botName = IF ~Falsy(ua.match.raw) /\ ua.match.alnum >= 2
                        THEN NormalizeLabel(ua) ELSE @,
            !.botType = "Crawler",
            !.botSource = "isbot (User Agent)",
            !.isGoodBot = "true"]
    ELSE result

\* function checkBot(ip, userAgent), against the index (map, ranges)
checkBot(map, ranges, ip, ua) ==
    CheckUserAgent(
        IF ip.parts = 0
        THEN NoAnalysis
        ELSE CheckIp(NoAnalysis, SingleGet(map, ip), findInRange(ranges, ip)),
        ua)

\* no lookup made yet
NoLookup ==
    [done |-> FALSE, ip |-> NoIp, single |-> NoEntry, range |-> NoEntry,
     result |-> NoAnalysis]

(***************************************************************************)
(* The body of processPersons' for loop, for one row (index.js 266-381)    *)
(*                                                                         *)
(* Flags as the query returns them are JavaScript values: the booleans     *)
(* "true" "false", the numbers "1" "0", the strings "'true'" "'false'"     *)
(* "'1'" "'0'", and "null".                                                *)
(***************************************************************************)
Row(personId, distinctId, isBotProp, processedIp, userAgent, existingInitialIp, existingLatestIp, existingIsGoodBot, existingDatacenter, existingLatestNonProxyIp) ==
    [personId |-> personId, distinctId |-> distinctId, isBotProp |-> isBotProp,
     processedIp |-> processedIp, userAgent |-> userAgent,
     existingInitialIp |-> existingInitialIp,
     existingLatestIp |-> existingLatestIp,
     existingIsGoodBot |-> existingIsGoodBot,
     existingDatacenter |-> existingDatacenter,
     existingLatestNonProxyIp |-> existingLatestNonProxyIp]

\* x === true || x === 1 || x === 'true' || x === '1'
LooksTrue(x) == x \in {"true", "1", "'true'", "'1'"}

\* x === false || x === 0 || x === 'false' || x === '0'
LooksFalse(x) == x \in {"false", "0", "'false'", "'0'"}

JsBool(b) == IF b THEN "true" ELSE "false"

\* let analysis = checkBot(processedIp, userAgent); and the re-check of the initial address
Analyse(map, ranges, rw) ==
    LET analysis == checkBot(map, ranges, rw.processedIp, rw.userAgent)
        initialAnalysis == checkBot(map, ranges, rw.existingInitialIp, rw.userAgent)
        a1 == IF initialAnalysis.isBot THEN initialAnalysis ELSE analysis
    IN  IF /\ ~analysis.isBot
           /\ rw.existingInitialIp.parts # 0
           /\ rw.existingInitialIp # rw.processedIp
        THEN IF initialAnalysis.isDatacenter /\ ~a1.isDatacenter
             THEN [a1 EXCEPT !.isDatacenter = TRUE,
                             !.datacenterName = initialAnalysis.datacenterName]
             ELSE a1
        ELSE analysis

PropNames ==
    {"is_bot", "is_good_bot", "bot_name", "bot_type", "bot_identification_source",
     "datacenter", "$initial_ip", "$latest_ip", "$latest_nonproxy_ip"}

\* const props = {...}, with the three address properties added as the code
\* adds them; NoIp stands for a key that was not added
Props(analysis, rw) ==
    LET newLatest == rw.processedIp.parts # 0 /\ rw.processedIp # rw.existingLatestIp
        newNonProxy ==
            /\ ~analysis.isBot
            /\ ~analysis.isDatacenter
            /\ rw.processedIp.parts # 0
            /\ ~(/\ rw.existingLatestNonProxyIp.parts # 0
                 /\ rw.existingLatestNonProxyIp = rw.processedIp)
    IN  [k \in PropNames |->
            CASE k = "is_bot" -> JsBool(analysis.isBot)
              [] k = "is_good_bot" ->
                    IF analysis.isBot
                    THEN JsBool(analysis.isGoodBot = "true")
                    ELSE "null"
              [] k = "bot_name" -> OrElse(analysis.botName, None)
              [] k = "bot_type" -> OrElse(analysis.botType, None)
              [] k = "bot_identification_source" -> OrElse(analysis.botSource, None)
              [] k = "datacenter" -> OrElse(analysis.datacenterName, None)
              [] k = "$initial_ip" ->
                    IF newLatest /\ rw.existingInitialIp.parts = 0
                    THEN rw.processedIp ELSE NoIp
              [] k = "$latest_ip" -> IF newLatest THEN rw.processedIp ELSE NoIp
              [] k = "$latest_nonproxy_ip" ->
                    IF newNonProxy THEN rw.processedIp ELSE NoIp]

\* (a slip that would compare the flags with the stored values as they are)
KeepsStrict(k, v, rw) ==
    CASE k = "is_bot" -> v # rw.isBotProp
      [] k = "is_good_bot" -> v # rw.existingIsGoodBot /\ v # "null"
      [] k = "datacenter" -> v # rw.existingDatacenter /\ v # None
      [] k = "$latest_ip" -> v # rw.existingLatestIp /\ v.parts # 0
      [] k = "$initial_ip" -> v # rw.existingInitialIp /\ v.parts # 0
      [] k = "$latest_nonproxy_ip" ->
            v # rw.existingLatestNonProxyIp /\ v.parts # 0
      [] OTHER -> v # None

\* the filter of Object.entries(props): whether the entry [k, v] is kept
Keeps(k, v, rw) ==
    CASE k = "is_bot" -> v # JsBool(LooksTrue(rw.isBotProp))
      [] k = "is_good_bot" ->
            v # JsBool(LooksTrue(rw.existingIsGoodBot)) /\ v # "null"
      [] k = "datacenter" -> v # rw.existingDatacenter /\ v # None
      [] k = "$latest_ip" -> v # rw.existingLatestIp /\ v.parts # 0
      [] k = "$initial_ip" -> v # rw.existingInitialIp /\ v.parts # 0
      [] k = "$latest_nonproxy_ip" ->
            v # rw.existingLatestNonProxyIp /\ v.parts # 0
      [] OTHER -> v # None

\* const filteredProps = Object.fromEntries(Object.entries(props).filter(...))
FilteredProps(props, rw) ==
    [k \in {n \in PropNames : Keeps(n, props[n], rw)} |-> props[k]]

\* (a slip that would name a bad bot without its address)
EffectiveDistinctIdNameOnly(analysis, rw) ==
    IF analysis.isBot /\ analysis.isGoodBot = "true" /\ ~Falsy(analysis.botName)
    THEN analysis.botName
    ELSE IF analysis.isBot /\ analysis.isGoodBot = "false"
    THEN OrElse(analysis.botName, "Unknown Bad Bot")
    ELSE rw.distinctId

\* let effectiveDistinctId = distinctId; if (analysis.isBot) { ... }
EffectiveDistinctId(analysis, rw) ==
    IF analysis.isBot /\ analysis.isGoodBot = "true" /\ ~Falsy(analysis.botName)
    THEN analysis.botName
    ELSE IF analysis.isBot /\ analysis.isGoodBot = "false"
    THEN OrElse(analysis.botName, "Unknown Bad Bot")
            \o " (" \o (IF rw.processedIp.parts = 0 THEN "No IP"
                        ELSE rw.processedIp.text) \o ")"
    ELSE rw.distinctId

\* (a slip that would never switch to $identify)
EventNameAlwaysSet(analysis, rw) == "$set"

\* let eventName = '$set'; ... if (effectiveDistinctId !== distinctId) eventName = '$identify'
EventName(analysis, rw) ==
    IF analysis.isBot /\ EffectiveDistinctId(analysis, rw) # rw.distinctId
    THEN "$identify"
    ELSE "$set"

\* what the loop body decides for one rw
Plan(map, ranges, rw) ==
    LET analysis == Analyse(map, ranges, rw)
        filteredProps == FilteredProps(Props(analysis, rw), rw)
        eventName == EventName(analysis, rw)
        isIdentify == eventName = "$identify"
    IN  [analysis |-> analysis,
         filteredProps |-> filteredProps,
         emits |-> (DOMAIN filteredProps # {}) \/ isIdentify,
         event |-> [event |-> eventName,
                    set |-> filteredProps,
                    distinct_id |-> EffectiveDistinctId(analysis, rw),
                    anon_distinct_id |-> IF isIdentify THEN rw.distinctId ELSE None,
                    personId |-> rw.personId]]

(***************************************************************************)
(* SpecRetry: one call of fetchWithRetry against a transport that may      *)
(* answer each invocation in any way.                                      *)
(***************************************************************************)
HintSecs == 7

Responses ==
    { OkResponse, NetworkError,
      HttpError(404, NoHeader), HttpError(400, SecsHeader(HintSecs)),
      HttpError(429, NoHeader), HttpError(429, SecsHeader(0)),
      HttpError(429, DateHeader), HttpError(429, SecsHeader(HintSecs)),
      HttpError(500, NoHeader), HttpError(503, SecsHeader(HintSecs)) }

\* stats.updated is not among the object's initial keys: undefined, and NaN
\* once a number has been added to it
NoStats ==
    [processed |-> 0, modified |-> 0, errors |-> 0, retries |-> 0,
     updated |-> "undefined"]

RetryIdle ==
    /\ call = NewCall
    /\ waits = <<>>
    /\ unhinted = TRUE
    /\ stats = NoStats

IndexIdle ==
    /\ singleIPs = <<>>
    /\ sortedRanges = <<>>
    /\ frozen = FALSE
    /\ feed = <<>>
    /\ lookup = NoLookup

\* person ids are kept as numbers in the order the platform sorts them; 0
\* stands for the empty cursor
NoCursor == 0

NoRow == Row(NoCursor, None, "null", NoIp, NoUserAgent, NoIp, NoIp, "null", None, NoIp)

NoPlan == Plan(<<>>, <<>>, NoRow)

PlanIdle ==
    /\ row = NoRow
    /\ plan = NoPlan
    /\ phase = "idle"

PipeIdle ==
    /\ pc = "idle"
    /\ isDryRun = FALSE
    /\ persons = <<>>
    /\ lastPersonId = NoCursor
    /\ eventBatch = <<>>
    /\ page = <<>>
    /\ pushed = <<>>
    /\ sent = <<>>
    /\ fetches = <<>>
    /\ seen = <<>>

RetryInit == RetryIdle /\ IndexIdle /\ PlanIdle /\ PipeIdle

\* the locals and the sleeps of a call, after the iteration that ends in r
RunStep(run, r) ==
    [call |-> RetryStep(run.call, r),
     waits |-> IF r.kind # "ok" /\ IsRetryable(r)
               THEN Append(run.waits, WaitTime(r, run.call.backoff))
               ELSE run.waits,
     unhinted |-> (run.unhinted /\ ~HasUsableHint(r))]

Invoke(r) ==
    /\ call.pc = "loop"
    /\ LoopGuard(call)
    /\ LET run == RunStep([call |-> call, waits |-> waits, unhinted |-> unhinted], r)
       IN  /\ call' = run.call
           /\ waits' = run.waits
           /\ unhinted' = run.unhinted
    /\ stats' = [stats EXCEPT !.retries = @ + (call'.retries - call.retries)]
    /\ UNCHANGED <<indexVars, planVars, pipeVars>>

GiveUp ==
    /\ call.pc = "loop"
    /\ ~LoopGuard(call)
    /\ call' = RetryExhausted(call)
    /\ UNCHANGED <<waits, unhinted, stats>>
    /\ UNCHANGED <<indexVars, planVars, pipeVars>>

RetryNext == (\E r \in Responses : Invoke(r)) \/ GiveUp

SpecRetry == RetryInit /\ [][RetryNext]_vars

(***************************************************************************)
(* SpecIndex: the loaders call addEntry in any order, loadAllBotData sorts *)
(* the ranges once they are all done, and lookups follow.                  *)
(***************************************************************************)
MaxFeed == 2

A5 == IpText(5)

Googlebot(range) ==
    FeedEntry(range, "bot", "Googlebot", "Search Engine", "good", "Official-Source")

Bingbot(range) ==
    FeedEntry(range, "bot", "Bingbot", "Crawler", "good", "Hexydec-Crawlers")

Firehol(range) ==
    FeedEntry(range, "bot", "Firehol Blocklist", "Malicious", "bad", "Firehol")

PostHogBot(range) ==
    FeedEntry(range, "bot", None, "Crawler", "good", "PostHog-Bot-List")

Datacentre(range, name) ==
    FeedEntry(range, "datacenter", name, "Datacenter", "neutral", "Hexydec-Datacenters")

\* a bot handed to addEntry with a name and no category
UncategorizedBot(range) ==
    FeedEntry(range, "bot", "Scanner", None, "bad", "ShadowWhisperer")

FeedEntries ==
    { Googlebot(SingleScope(A5)),
      Datacentre(SingleScope(A5), "AWS"),
      Bingbot(SingleScope(A5)),
      PostHogBot(SingleScope(A5)),
      Googlebot(CidrScope(A5, AddrBits)),
      Datacentre(CidrScope(A5, AddrBits), "AWS"),
      Firehol(CidrScope(IpText(4), AddrBits - 1)),
      Datacentre(CidrScope(IpText(0), 1), "AWS"),
      Googlebot(CidrScope(IpText(3), 0)),
      Datacentre(CidrScope(IpText(0), 0), None),
      Firehol(SingleScope(BadIpText)),
      Datacentre(CidrScope(BadIpText, 2), "AWS"),
      Googlebot(BadCidrScope(A5)),
      UncategorizedBot(SingleScope(IpText(6))),
      Datacentre(SingleScope(A5), None) }

MaxProbe == 7

Probes == {IpText(v) : v \in 0..MaxProbe} \cup {BadIpText, NoIp}

IndexInit == IndexIdle /\ RetryIdle /\ PlanIdle /\ PipeIdle

\* function addEntry(range, type, name, category, rating, source)
addEntry(in) ==
    /\ ~frozen
    /\ Len(feed) < MaxFeed
    /\ feed' = Append(feed, in)
    /\ singleIPs' = IF in.range.form = "single"
                    THEN AddSingle(singleIPs, in)
                    ELSE singleIPs
    /\ sortedRanges' = IF in.range.form = "cidr"
                       THEN AddRange(sortedRanges, in)
                       ELSE sortedRanges
    /\ UNCHANGED <<frozen, lookup>>
    /\ UNCHANGED <<retryVars, planVars, pipeVars>>

\* loadAllBotData, after await Promise.all([...]): sort and return
Freeze ==
    /\ ~frozen
    /\ sortedRanges' = SortByStart(sortedRanges)
    /\ frozen' = TRUE
    /\ UNCHANGED <<singleIPs, feed, lookup>>
    /\ UNCHANGED <<retryVars, planVars, pipeVars>>

\* checkBot(ip, undefined): botData.singleIPs.get(ip), botData.findInRange(ip)
\* and what checkBot makes of the two
Lookup(ip) ==
    /\ frozen
    /\ lookup' = [done |-> TRUE, ip |-> ip,
                  single |-> SingleGet(singleIPs, ip),
                  range |-> findInRange(sortedRanges, ip),
                  result |-> checkBot(singleIPs, sortedRanges, ip, NoUserAgent)]
    /\ UNCHANGED <<singleIPs, sortedRanges, frozen, feed>>
    /\ UNCHANGED <<retryVars, planVars, pipeVars>>

IndexNext ==
    \/ \E in \in FeedEntries : addEntry(in)
    \/ Freeze
    \/ \E ip \in Probes : Lookup(ip)

SpecIndex == IndexInit /\ [][IndexNext]_vars

(***************************************************************************)
(* SpecPlan: the loop body on one row, against a loaded index; then the    *)
(* analytics platform stores the patch, and the row is planned again.      *)
(***************************************************************************)
\* the loaders' calls of this run, in the order they were made
LoadedFeed ==
    << Googlebot(SingleScope(A5)),
       Datacentre(CidrScope(IpText(4), AddrBits - 1), "AWS"),
       Firehol(CidrScope(IpText(6), AddrBits)),
       FeedEntry(SingleScope(IpText(7)), "bot", "Residential Proxy (AS1)",
                 "ResProxy", "bad", "Avastel") >>

\* singleIPs and sortedRanges after the calls of a feed
RECURSIVE Ingest(_)
Ingest(calls) ==
    IF calls = <<>>
    THEN [map |-> <<>>, ranges |-> <<>>]
    ELSE LET before == Ingest(SubSeq(calls, 1, Len(calls) - 1))
             in == calls[Len(calls)]
         IN  [map |-> IF in.range.form = "single"
                      THEN AddSingle(before.map, in) ELSE before.map,
              ranges |-> IF in.range.form = "cidr"
                         THEN AddRange(before.ranges, in) ELSE before.ranges]

\* botData = await loadAllBotData()
IndexLoaded ==
    /\ singleIPs = Ingest(LoadedFeed).map
    /\ sortedRanges = SortByStart(Ingest(LoadedFeed).ranges)
    /\ frozen = TRUE
    /\ feed = LoadedFeed
    /\ lookup = NoLookup

Browser == UserAgent("Mozilla/5.0 Firefox/120.0", FALSE, NoLabel, {})

GooglebotAgent ==
    UserAgent("Mozilla/5.0 (compatible; Googlebot/2.1)", TRUE,
              Label("Googlebot", "Googlebot", 9, FALSE), {})

RowIps == {NoIp, IpText(1), IpText(4), A5, IpText(6)}

RowAgents == {NoUserAgent, Browser, GooglebotAgent}

RowFlags == {"null", "true", "1", "'true'", "false", "'0'"}

RowStoredIps == {NoIp, IpText(1), A5}

RowInitialIps == RowStoredIps \cup {IpText(7)}

Rows ==
    { Row(1, d, b, ip, ua, i, l, g, dc, np) :
        d \in {"abc-123", "Googlebot"}, b \in RowFlags, ip \in RowIps,
        ua \in RowAgents, i \in RowInitialIps, l \in RowStoredIps,
        g \in RowFlags, dc \in {None, "AWS"}, np \in {NoIp, IpText(1)} }

PlanInit ==
    /\ IndexLoaded
    /\ RetryIdle
    /\ PipeIdle
    /\ row \in Rows
    /\ plan = NoPlan
    /\ phase = "fetched"

\* one pass of the for loop's body over the row
PlanRow ==
    /\ phase \in {"fetched", "stored"}
    /\ plan' = Plan(singleIPs, sortedRanges, row)
    /\ phase' = IF phase = "fetched" THEN "planned" ELSE "replanned"
    /\ UNCHANGED <<row, retryVars, indexVars, pipeVars>>

\* the value the platform holds for a property once the event's $set is stored
StoredValue(patch, k, old) == IF k \in DOMAIN patch THEN patch[k] ELSE old

\* the analytics platform stores the event's $set on the person
StorePatch ==
    /\ phase = "planned"
    /\ plan.emits
    /\ row' = [row EXCEPT
            !.isBotProp = StoredValue(plan.filteredProps, "is_bot", @),
            !.existingIsGoodBot = StoredValue(plan.filteredProps, "is_good_bot", @),
            !.existingDatacenter = StoredValue(plan.filteredProps, "datacenter", @),
            !.existingInitialIp = StoredValue(plan.filteredProps, "$initial_ip", @),
            !.existingLatestIp = StoredValue(plan.filteredProps, "$latest_ip", @),
            !.existingLatestNonProxyIp =
                StoredValue(plan.filteredProps, "$latest_nonproxy_ip", @)]
    /\ phase' = "stored"
    /\ UNCHANGED <<plan, retryVars, indexVars, pipeVars>>

\* no event was sent: the stored properties stay as they are
StoreNothing ==
    /\ phase = "planned"
    /\ ~plan.emits
    /\ phase' = "stored"
    /\ UNCHANGED <<row, plan, retryVars, indexVars, pipeVars>>

PlanNext == PlanRow \/ StorePatch \/ StoreNothing

SpecPlan == PlanInit /\ [][PlanNext]_vars

(***************************************************************************)
(* Spec: start().  loadAllBotData, then processPersons: pages of LIMIT     *)
(* persons are fetched by cursor, each row goes through the loop body, and *)
(* events are written in batches of BATCH_SIZE.  Every await of a network  *)
(* call is a state of its own; the call's iterations are run in the step   *)
(* that ends the await, against a script of transport outcomes.            *)
(***************************************************************************)
\* const BATCH_SIZE = 1000, scaled
BATCH_SIZE == 2

\* const LIMIT = 5000, scaled
LIMIT == 2

MaxPersons == 3

\* a person whose stored properties are up to date: the loop body sends nothing
Settled(id) ==
    Row(id, "user-" \o ToString(id), "false", IpText(1), Browser, IpText(1),
        IpText(1), "null", None, IpText(1))

\* a person seen for the first time from a residential address: a $set event
Visitor(id) ==
    Row(id, "user-" \o ToString(id), "null", IpText(1), Browser, NoIp, NoIp,
        "null", None, NoIp)

\* a person seen for the first time from Googlebot's address: a $identify event
Crawler(id) ==
    Row(id, "user-" \o ToString(id), "null", A5, GooglebotAgent, NoIp, NoIp,
        "null", None, NoIp)

\* an entry of data.results that is not an array (null): all the program
\* gets of this person; the id is the source's, for the order of the rows
NotARow(id) == [personId |-> id]

\* whether const [personId, distinctId, ...] = row can take the entry apart
IsRow(rw) == DOMAIN rw = DOMAIN NoRow

PersonKinds == {"settled", "visitor", "crawler", "null"}

PersonOfKind(kind, id) ==
    CASE kind = "settled" -> Settled(id)
      [] kind = "visitor" -> Visitor(id)
      [] kind = "crawler" -> Crawler(id)
      [] kind = "null" -> NotARow(id)

\* GROUP BY person.id ORDER BY person.id: one row per person, ids ascending
Tables ==
    UNION { { [i \in 1..n |-> PersonOfKind(kinds[i], i)] :
                kinds \in [1..n -> PersonKinds] } : n \in 0..MaxPersons }

\* (a source that would hand out the row at the cursor again)
PageFrom(table, cursor) ==
    LET later == SelectSeq(table, LAMBDA p : p.personId >= cursor)
    IN  SubSeq(later, 1, Min(LIMIT, Len(later)))

\* ${lastPersonId ? `WHERE person.id > '${lastPersonId}'` : ''} ... LIMIT ${LIMIT}
PageAfter(table, cursor) ==
    LET later == IF cursor = NoCursor
                 THEN table
                 ELSE SelectSeq(table, LAMBDA p : p.personId > cursor)
    IN  SubSeq(later, 1, Min(LIMIT, Len(later)))

\* ten server errors in a row
Outage == [i \in 1..MAX_RETRIES |-> HttpError(503, NoHeader)]

\* what the transport answers to the invocations of one call, in order
Scripts ==
    { <<OkResponse>>,
      <<HttpError(503, NoHeader), OkResponse>>,
      <<HttpError(404, NoHeader)>>,
      Outage }

NewRun == [call |-> NewCall, waits |-> <<>>, unhinted |-> TRUE]

\* fetchWithRetry(fn, context), run to its end against a script
RECURSIVE fetchWithRetry(_, _)
fetchWithRetry(run, script) ==
    IF run.call.pc # "loop"
    THEN run
    ELSE IF ~LoopGuard(run.call)
    THEN [run EXCEPT !.call = RetryExhausted(@)]
    ELSE IF script = <<>>
    THEN run
    ELSE fetchWithRetry(RunStep(run, Head(script)), Tail(script))

\* (a slip that would flush only above BATCH_SIZE)
ShouldFlushAbove(batch) == Len(batch) > BATCH_SIZE

\* if (eventBatch.length >= BATCH_SIZE)
ShouldFlush(batch) == Len(batch) >= BATCH_SIZE

\* (a slip that would leave the buffer as it is after a flush)
AfterFlushKept(batch) == batch

\* eventBatch = [];
AfterFlush(batch) == <<>>

\* (a slip that would count one error per failed batch)
BatchErrorsOnePerBatch(c, events) == IF c.pc = "returned" THEN 0 ELSE 1

\* catch (error) { stats.errors += events.length; }
BatchErrors(c, events) == IF c.pc = "returned" THEN 0 ELSE Len(events)

\* the entry of the sendBatch history for a call that has not returned yet
SendCall(events, final) ==
    [batch |-> events, final |-> final, outcome |-> "pending", posts |-> 0,
     processed |-> stats.processed, fetched |-> Len(fetches)]

\* (a slip that would write in a dry run too)
SkipsWriteNever(dryRun) == FALSE

\* if (isDryRun) { ...; return; }
SkipsWrite(dryRun) == dryRun

\* (a slip that would ask for the next page after every row)
LoopRestarts(rest) == "top"

\* the position after the body of the for loop: next row, or next page
LoopOn(rest) == IF rest = <<>> THEN "top" ELSE "rows"

Init ==
    /\ RetryIdle
    /\ IndexIdle
    /\ PlanIdle
    /\ pc = "start"
    /\ isDryRun \in BOOLEAN
    /\ persons \in Tables
    /\ lastPersonId = NoCursor
    /\ eventBatch = <<>>
    /\ page = <<>>
    /\ pushed = <<>>
    /\ sent = <<>>
    /\ fetches = <<>>
    /\ seen = <<>>

\* botData = await loadAllBotData();
loadAllBotData ==
    /\ pc = "start"
    /\ singleIPs' = Ingest(LoadedFeed).map
    /\ sortedRanges' = SortByStart(Ingest(LoadedFeed).ranges)
    /\ frozen' = TRUE
    /\ feed' = LoadedFeed
    /\ pc' = "top"
    /\ UNCHANGED <<lookup, retryVars, planVars>>
    /\ UNCHANGED <<isDryRun, persons, lastPersonId, eventBatch, page, pushed, sent, fetches, seen>>

\* while (true) { ... const data = await fetchHogQL(querySql): the call is made
fetchHogQL ==
    /\ pc = "top"
    /\ fetches' = Append(fetches, [cursor |-> lastPersonId, result |-> "pending",
                                   last |-> NoCursor])
    /\ pc' = "fetching"
    /\ UNCHANGED <<retryVars, indexVars, planVars>>
    /\ UNCHANGED <<isDryRun, persons, lastPersonId, eventBatch, page, pushed, sent, seen>>

\* what fetchHogQL hands back: null, or the body of the response
NullData == [null |-> TRUE, hasResults |-> FALSE, results |-> <<>>]

\* a 200 response: with the rows, or with a body that has no results field
Bodies == {"results", "no-results"}

Data(body, rows) ==
    [null |-> FALSE, hasResults |-> (body = "results"),
     results |-> IF body = "results" THEN rows ELSE <<>>]

\* (a slip that would stop only when there is no usable body)
StopsPagingOnFailureOnly(data) == data.null \/ ~data.hasResults

\* if (!data || !data.results || data.results.length === 0) break;
StopsPaging(data) == data.null \/ ~data.hasResults \/ Len(data.results) = 0

\* how a fetch ended, for the history
FetchResult(data) ==
    IF data.null THEN "failed"
    ELSE IF ~data.hasResults THEN "no-results"
    ELSE IF data.results = <<>> THEN "empty" ELSE "rows"

\* fetchHogQL returns response.data, or null when fetchWithRetry threw
fetchHogQLReturns(script, body) ==
    /\ pc = "fetching"
    /\ LET run == fetchWithRetry(NewRun, script)
           data == IF run.call.pc # "returned"
                   THEN NullData
                   ELSE Data(body, PageAfter(persons, lastPersonId))
       IN  /\ run.call.pc # "loop"
           /\ call' = run.call
           /\ waits' = run.waits
           /\ unhinted' = run.unhinted
           /\ stats' = [stats EXCEPT !.retries = @ + run.call.retries]
           /\ page' = data.results
           /\ fetches' = [fetches EXCEPT
                            ![Len(fetches)].result = FetchResult(data),
                            ![Len(fetches)].last =
                                IF data.results = <<>>
                                THEN NoCursor
                                ELSE data.results[Len(data.results)].personId]
           /\ pc' = IF StopsPaging(data) THEN "final" ELSE LoopOn(data.results)
    /\ UNCHANGED <<indexVars, planVars>>
    /\ UNCHANGED <<isDryRun, persons, lastPersonId, eventBatch, pushed, sent, seen>>

\* the body of for (const row of data.results), up to the await of sendBatch
ProcessRow ==
    /\ pc = "rows"
    /\ IsRow(Head(page))
    /\ row' = Head(page)
    /\ plan' = Plan(singleIPs, sortedRanges, row')
    /\ lastPersonId' = row'.personId
    /\ stats' = [stats EXCEPT
                   !.processed = @ + 1,
                   !.modified = @ + (IF plan'.emits THEN 1 ELSE 0)]
    /\ eventBatch' = IF plan'.emits THEN Append(eventBatch, plan'.event) ELSE eventBatch
    /\ pushed' = IF plan'.emits THEN Append(pushed, plan'.event) ELSE pushed
    /\ page' = Tail(page)
    /\ seen' = Append(seen, row'.personId)
    /\ IF ShouldFlush(eventBatch')
       THEN /\ sent' = Append(sent, SendCall(eventBatch', FALSE))
            /\ pc' = "sending"
       ELSE /\ sent' = sent
            /\ pc' = LoopOn(page')
    /\ UNCHANGED <<call, waits, unhinted, indexVars, phase>>
    /\ UNCHANGED <<isDryRun, persons, fetches>>

\* stats.processed++, and the destructuring of a row that is not iterable
\* throws: processPersons is left, start() logs "Critical error during
\* processing" and returns
ProcessRowThrows ==
    /\ pc = "rows"
    /\ ~IsRow(Head(page))
    /\ stats' = [stats EXCEPT !.processed = @ + 1]
    /\ pc' = "crashed"
    /\ UNCHANGED <<call, waits, unhinted, indexVars, planVars>>
    /\ UNCHANGED <<isDryRun, persons, lastPersonId, eventBatch, page, pushed, sent, fetches, seen>>

\* what follows the await of sendBatch: eventBatch = [] and the loop goes on
\* after a threshold flush, the final stats after the final flush
AfterSendBatch ==
    /\ eventBatch' = IF pc = "sending" THEN AfterFlush(eventBatch) ELSE eventBatch
    /\ pc' = IF pc = "sending" THEN LoopOn(page) ELSE "done"

\* sendBatch(events) with isDryRun: returns before any request
sendBatchDryRun ==
    /\ pc \in {"sending", "flushing"}
    /\ SkipsWrite(isDryRun)
    /\ sent' = [sent EXCEPT ![Len(sent)].outcome = "dry-run"]
    /\ AfterSendBatch
    /\ UNCHANGED <<retryVars, indexVars, planVars>>
    /\ UNCHANGED <<isDryRun, persons, lastPersonId, page, pushed, fetches, seen>>

\* sendBatch(events): try { await fetchWithRetry(...); stats.updated += ... }
\* catch (error) { stats.errors += events.length; }
sendBatchReturns(script) ==
    /\ pc \in {"sending", "flushing"}
    /\ ~SkipsWrite(isDryRun)
    /\ LET run == fetchWithRetry(NewRun, script)
           events == sent[Len(sent)].batch
       IN  /\ run.call.pc # "loop"
           /\ call' = run.call
           /\ waits' = run.waits
           /\ unhinted' = run.unhinted
           /\ stats' = [stats EXCEPT
                          !.retries = @ + run.call.retries,
                          !.errors = @ + BatchErrors(run.call, events),
                          !.updated = IF run.call.pc = "returned" THEN "NaN" ELSE @]
           /\ sent' = [sent EXCEPT
                         ![Len(sent)].outcome =
                            IF run.call.pc = "returned" THEN "written" ELSE "failed",
                         ![Len(sent)].posts = run.call.attempts]
    /\ AfterSendBatch
    /\ UNCHANGED <<indexVars, planVars>>
    /\ UNCHANGED <<isDryRun, persons, lastPersonId, page, pushed, fetches, seen>>

\* if (eventBatch.length > 0) await sendBatch(eventBatch); then the final stats
FinalFlush ==
    /\ pc = "final"
    /\ IF Len(eventBatch) > 0
       THEN /\ sent' = Append(sent, SendCall(eventBatch, TRUE))
            /\ pc' = "flushing"
       ELSE /\ sent' = sent
            /\ pc' = "done"
    /\ UNCHANGED <<retryVars, indexVars, planVars>>
    /\ UNCHANGED <<isDryRun, persons, lastPersonId, eventBatch, page, pushed, fetches, seen>>

Next ==
    \/ loadAllBotData
    \/ fetchHogQL
    \/ \E script \in Scripts, body \in Bodies : fetchHogQLReturns(script, body)
    \/ ProcessRow
    \/ ProcessRowThrows
    \/ sendBatchDryRun
    \/ \E script \in Scripts : sendBatchReturns(script)
    \/ FinalFlush

Spec == Init /\ [][Next]_vars

\* the event loop runs every continuation that is ready, and every request
\* ends (in a response or in an error)
MaxLivePersons == 2

\* the runs over at most MaxLivePersons persons
LiveInit == Init /\ Len(persons) <= MaxLivePersons

FairSpec == LiveInit /\ [][Next]_vars /\ WF_vars(Next)

(***************************************************************************)
(* Claims about fetchWithRetry, checked under SpecRetry                    *)
(***************************************************************************)
RECURSIVE Pow(_, _)
Pow(b, e) == IF e = 0 THEN 1 ELSE b * Pow(b, e - 1)

\* min(2000 * 1.5^(k-1), 60000) ms, in ticks
Schedule(k) ==
    Min((Ms(INITIAL_BACKOFF_MS) * Pow(3, k - 1)) \div Pow(2, k - 1),
        Ms(BACKOFF_CAP_MS))

\* C6: while every failure of the call was a 5xx or a 429 without a usable
\* retry-after, the k-th wait lasts min(2000 * 1.5^(k-1), 60000) ms, there
\* is one wait per counted retry, and the retry counter grew by that number
\* (so three such failures and a success give waits of 2000, 3000, 4500 ms
\* and 3 retries).
C6_BackoffSchedule ==
    unhinted =>
        /\ Len(waits) = call.retries
        /\ stats.retries = call.retries
        /\ \A k \in 1..Len(waits) : waits[k] = Schedule(k)

C6_ThreeWaitsThenSuccess ==
    /\ call.pc = "returned"
    /\ unhinted
    /\ call.attempts = 4
    /\ waits = <<Ms(2000), Ms(3000), Ms(4500)>>
    /\ stats.retries = 3

\* C7 (as claimed): the call is re-invoked up to 10 times after its first
\* failure: as long as fewer than 1 + 10 invocations have failed the loop
\* invokes again, and 'max retries exceeded' is raised only after the first
\* attempt and all 10 retries have failed.
C7_TenRetriesAreMade ==
    /\ (call.pc = "loop" /\ call.attempts < 1 + MAX_RETRIES => LoopGuard(call))
    /\ (call.pc = "maxed" => call.attempts = 1 + MAX_RETRIES)

\* The claim's own class of errors: neither 429 nor 5xx.
NeitherRateLimitNorServerError(r) ==
    \/ r.kind = "network"
    \/ (r.kind = "http" /\ r.status # 429 /\ r.status < 500)

\* C8: an invocation that fails with an error that is neither 429 nor 5xx
\* makes fetchWithRetry throw that error at once: no wait is added, the
\* retry counters stay as they are, and fn is never invoked again.
C8_NonRetryableRethrown ==
    [][ /\ (/\ call'.attempts = call.attempts + 1
            /\ NeitherRateLimitNorServerError(call'.last))
           => /\ call'.pc = "thrown"
              /\ waits' = waits
              /\ call'.retries = call.retries
              /\ stats'.retries = stats.retries
        /\ (call.pc = "thrown" => call'.attempts = call.attempts) ]_vars

C8_ThrownAfterTwoRetries ==
    /\ call.pc = "thrown"
    /\ call.last = HttpError(404, NoHeader)
    /\ call.attempts = 3
    /\ Len(waits) = 2
    /\ stats.retries = 2

\* C9: after a 429 with a retry-after header of N > 0 seconds the wait is
\* N * 1000 ms whatever the backoff is; after a 429 without the header the
\* wait is the current backoff.
C9_RetryAfterHonoured ==
    [][ (/\ call'.attempts = call.attempts + 1
         /\ call'.last.kind = "http"
         /\ call'.last.status = 429)
        => LET h == call'.last.retryAfter IN
           /\ (h.present /\ h.numeric /\ h.secs > 0
                  => waits' = Append(waits, Ms(h.secs * 1000)))
           /\ (~h.present => waits' = Append(waits, call.backoff)) ]_vars

\* a hinted wait shorter than the backoff of that moment (10125 ms)
C9_HintBelowBackoff ==
    /\ Len(waits) = 5
    /\ call.last = HttpError(429, SecsHeader(HintSecs))
    /\ waits[5] = Ms(HintSecs * 1000)
    /\ waits[5] < Schedule(5)

(***************************************************************************)
(* Claims about the index, checked under SpecIndex                         *)
(***************************************************************************)
\* the addEntry calls made for a scope
ScopeCalls(scope) == {i \in 1..Len(feed) : feed[i].range = scope}

\* the data the range list holds for exactly [start, end]
RangeData(start, end) ==
    IF FindIndex(sortedRanges, start, end) = 0
    THEN NoEntry
    ELSE sortedRanges[FindIndex(sortedRanges, start, end)].data

\* the entry the index holds for the scope of an addEntry call
StoredFor(in) ==
    IF in.range.form = "single"
    THEN SingleGet(singleIPs, in.range.ip)
    ELSE RangeData(RangeStart(in.range.ip, in.range.bits),
                   RangeEnd(RangeStart(in.range.ip, in.range.bits), in.range.bits))

IsStoredScope(scope) ==
    scope.form = "single" \/ (scope.form = "cidr" /\ scope.numeric)

\* C2 (as claimed): when a scope was ingested exactly twice, once as a
\* datacenter and once as a bot with a specific name, in either order, the
\* index holds for it a bot entry with the bot's name and the datacenter's
\* name in its datacenter field, and that entry is the one the opposite
\* order of the two calls produces.
C2_DatacenterBotOrderIndependent ==
    \A i, j \in 1..Len(feed) :
        (/\ i < j
         /\ feed[i].range = feed[j].range
         /\ IsStoredScope(feed[i].range)
         /\ ScopeCalls(feed[i].range) = {i, j}
         /\ {feed[i].type, feed[j].type} = {"datacenter", "bot"}
         /\ \A k \in {i, j} : feed[k].type = "bot" => ~isGeneric(feed[k].name))
        => LET bot == IF feed[i].type = "bot" THEN feed[i] ELSE feed[j]
               dc == IF feed[i].type = "bot" THEN feed[j] ELSE feed[i]
               e == StoredFor(feed[i])
           IN  /\ e.type = "bot"
               /\ e.name = bot.name
               /\ e.datacenter # None
               /\ e.datacenter = NewData(dc).name
               /\ e = merge(merge(NoEntry, NewData(feed[j])), NewData(feed[i]))

\* the range of a.b.c.d/n as the claim defines it: the address masked to n
\* bits, and start + 2^(width - n) - 1
ClaimedStart(v, n) == v - (v % (2 ^ (AddrBits - n)))

ClaimedEnd(v, n) == (ClaimedStart(v, n) + 2 ^ (AddrBits - n) - 1) % AddrSpace

\* C3 (as claimed): once the ranges are sorted, for every ingested CIDR
\* a.b.c.d/n with 0 <= n <= width, findInRange returns the entry held for
\* [start, end] for every address in [start, end], and does not return it
\* for start - 1 and end + 1.
C3_RangeLookupCorrect ==
    (frozen /\ lookup.done /\ lookup.ip.parts = 4) =>
        \A i \in 1..Len(feed) :
            (/\ feed[i].range.form = "cidr"
             /\ feed[i].range.numeric
             /\ feed[i].range.bits \in 0..AddrBits
             /\ feed[i].range.ip.parts = 4)
            => LET s == ClaimedStart(feed[i].range.ip.val, feed[i].range.bits)
                   e == ClaimedEnd(feed[i].range.ip.val, feed[i].range.bits)
                   t == lookup.ip.val
               IN  /\ (s <= t /\ t <= e)
                        => /\ lookup.range # NoEntry
                           /\ lookup.range = RangeData(s, e)
                   /\ (s <= e /\ (t = s - 1 \/ t = e + 1))
                        => lookup.range # RangeData(s, e)

(***************************************************************************)
(* Claims about the loop body, checked under SpecPlan                      *)
(***************************************************************************)
\* C1 (as claimed): when the patch of a first pass has been stored on the
\* record and the record is planned again with the same addresses and user
\* agent, the second pass yields an empty patch and emits no event.
C1_SecondPassIsEmpty ==
    phase = "replanned" => (DOMAIN plan.filteredProps = {} /\ ~plan.emits)

(***************************************************************************)
(* Claims about the batching of processPersons, checked under Spec         *)
(***************************************************************************)
\* the events of the sendBatch calls made so far, in the order they were passed
RECURSIVE EventsOf(_)
EventsOf(calls) ==
    IF calls = <<>>
    THEN <<>>
    ELSE EventsOf(SubSeq(calls, 1, Len(calls) - 1)) \o calls[Len(calls)].batch

NoDuplicates(q) == \A i, j \in 1..Len(q) : q[i] = q[j] => i = j

EndedOnEmptyPage == fetches # <<>> /\ fetches[Len(fetches)].result = "empty"

FinalBatch == IF sent # <<>> /\ sent[Len(sent)].final THEN sent[Len(sent)].batch ELSE <<>>

\* C4 (as amended): no event is ever passed to sendBatch twice, and once
\* processing has ended every event that was pushed into the buffer has been
\* passed to sendBatch exactly once, in the order it was pushed; the buffer
\* is emptied after each threshold flush, while after the final flush it
\* still holds the events of that flush.
C4_EveryEventSentOnce ==
    /\ NoDuplicates(EventsOf(sent))
    /\ pc \in {"top", "fetching", "rows", "final"} =>
          pushed = EventsOf(sent) \o eventBatch
    /\ pc = "done" =>
          /\ EventsOf(sent) = pushed
          /\ eventBatch = FinalBatch

\* C4: a run whose pagination ended on an empty page, with a threshold flush
\* and a final flush behind it
C4_TwoFlushesThenEnd ==
    /\ pc = "done"
    /\ EndedOnEmptyPage
    /\ Len(fetches) >= 3
    /\ Len(sent) >= 2
    /\ ~sent[1].final
    /\ sent[Len(sent)].final
    /\ Len(pushed) > BATCH_SIZE

\* C4 (as stated): in every run whose pagination ended on an empty page, each
\* pushed event has been passed to sendBatch exactly once, none twice, and at
\* the end the buffer is empty.
C4_BufferEmptyAtEnd ==
    (pc = "done" /\ EndedOnEmptyPage) =>
        /\ EventsOf(sent) = pushed
        /\ NoDuplicates(EventsOf(sent))
        /\ eventBatch = <<>>

\* C5: the buffer never holds more than BATCH_SIZE events; every batch passed
\* to sendBatch before the final flush holds exactly BATCH_SIZE events, and
\* the final flush passes between 1 and BATCH_SIZE - 1 events.
C5_BatchSizes ==
    /\ Len(eventBatch) <= BATCH_SIZE
    /\ \A i \in 1..Len(sent) :
          IF sent[i].final
          THEN Len(sent[i].batch) \in 1..(BATCH_SIZE - 1)
          ELSE Len(sent[i].batch) = BATCH_SIZE

\* C5: a full batch was flushed at the threshold and a smaller one at the end
C5_FullBatchThenRemainder ==
    /\ pc = "done"
    /\ \E i \in 1..Len(sent) : ~sent[i].final /\ Len(sent[i].batch) = BATCH_SIZE
    /\ \E i \in 1..Len(sent) : sent[i].final /\ Len(sent[i].batch) < BATCH_SIZE

\* C10: when the write of a batch fails for good (fetchWithRetry threw: the
\* retries were exhausted, or the error was not retryable), stats.errors
\* grows by the number of events of that batch and nothing else is lost: after
\* a threshold flush the loop goes on with the next row of the page, or with
\* the next page from the cursor it had.
C10_FailedWriteCountedAndSkipped ==
    [][ (/\ pc \in {"sending", "flushing"}
         /\ sent[Len(sent)].outcome = "pending"
         /\ sent'[Len(sent)].outcome = "failed") =>
            /\ call'.pc \in {"thrown", "maxed"}
            /\ stats'.errors = stats.errors + Len(sent[Len(sent)].batch)
            /\ stats'.processed = stats.processed
            /\ stats'.modified = stats.modified
            /\ page' = page
            /\ lastPersonId' = lastPersonId
            /\ pc = "sending" => pc' = (IF page = <<>> THEN "top" ELSE "rows")
      ]_vars

\* C10: two writes failed, one with the retries exhausted and one with an
\* error that is not retried; rows were processed and a page was fetched
\* after the first failure
C10_RunGoesOnAfterFailures ==
    /\ Len(sent) >= 2
    /\ sent[1].outcome = "failed"
    /\ sent[2].outcome = "failed"
    /\ stats.errors = Len(sent[1].batch) + Len(sent[2].batch)
    /\ stats.retries >= MAX_RETRIES
    /\ call.pc = "thrown"
    /\ stats.processed > sent[1].processed
    /\ Len(fetches) > sent[1].fetched

\* C11: a write that failed for good ends the run: after it, no further record
\* is processed and no further page is fetched.
C11_FailedWriteAbortsRun ==
    \A i \in 1..Len(sent) :
        sent[i].outcome = "failed" =>
            /\ stats.processed = sent[i].processed
            /\ Len(fetches) = sent[i].fetched

(***************************************************************************)
(* Claims about the pagination of processPersons, checked under Spec       *)
(***************************************************************************)
\* the non-empty pages a source holding n persons hands out
PagesOf(n) == (n + LIMIT - 1) \div LIMIT

\* C12: processPersons stops fetching at the first fetch that returns an
\* empty page or fails for good: every fetch but the last returned rows, once
\* the loop is left the last fetch is one that did not, and a run over a
\* source of n non-empty pages that ended on the empty page made exactly
\* n + 1 fetches.
C12_PaginationTerminates ==
    /\ \A i \in 1..(Len(fetches) - 1) : fetches[i].result = "rows"
    /\ pc \in {"final", "flushing", "done"} =>
          /\ fetches # <<>>
          /\ fetches[Len(fetches)].result \in {"empty", "failed", "no-results"}
    /\ (pc = "done" /\ EndedOnEmptyPage) =>
          Len(fetches) = PagesOf(Len(persons)) + 1

\* C12: two non-empty pages and then the empty page: three fetches
C12_TwoPagesThenEmpty ==
    /\ pc = "done"
    /\ EndedOnEmptyPage
    /\ PagesOf(Len(persons)) = 2
    /\ Len(fetches) = 3

\* C13: the cursor of every fetch after the first is the id of the last row
\* of the page before it, the cursors strictly increase, and no row is taken
\* twice in a run.
C13_CursorMonotone ==
    /\ \A i \in 2..Len(fetches) :
          /\ fetches[i].cursor = fetches[i - 1].last
          /\ fetches[i].cursor > fetches[i - 1].cursor
    /\ NoDuplicates(seen)
    /\ pc \in {"top", "fetching"} /\ seen # <<>> => lastPersonId = seen[Len(seen)]

\* C13: a third fetch was made, from the cursor the second page left
C13_ThirdFetchFromSecondPage ==
    /\ Len(fetches) = 3
    /\ Len(persons) > LIMIT
    /\ fetches[2].cursor = LIMIT
    /\ fetches[3].cursor = Len(persons)
    /\ Len(seen) = Len(persons)

\* C14: every run that starts processing eventually prints the final
\* counters, however it ends.
C14_FinalStatsAlwaysPrinted == (pc = "top") ~> (pc = "done")

\* C15: in a dry run no request is ever sent to the event sink: every call
\* of sendBatch returns without a POST, nothing is counted as written or
\* failed; the pages are still fetched and the rows classified and counted.
C15_DryRunNeverWrites ==
    isDryRun =>
        /\ \A i \in 1..Len(sent) :
              /\ sent[i].posts = 0
              /\ sent[i].outcome \in {"pending", "dry-run"}
        /\ stats.errors = 0
        /\ stats.updated = "undefined"
        /\ stats.processed = Len(seen) + (IF pc = "crashed" THEN 1 ELSE 0)
        /\ stats.modified = Len(pushed)

\* C15: a dry run that fetched two pages, counted rows as modified, and went
\* through a threshold flush and a final flush
C15_DryRunWithTwoFlushes ==
    /\ isDryRun
    /\ pc = "done"
    /\ Len(fetches) >= 3
    /\ stats.processed > BATCH_SIZE
    /\ stats.modified > BATCH_SIZE
    /\ Len(sent) >= 2
    /\ \A i \in 1..Len(sent) : sent[i].outcome = "dry-run"

(***************************************************************************)
(* Claims about the loop body, checked under SpecPlan                      *)
(***************************************************************************)
Planned == phase \in {"planned", "replanned"}

\* the address part of a bad bot's identity: `${processedIp || 'No IP'}`
AddressPart == IF row.processedIp.parts = 0 THEN "No IP" ELSE row.processedIp.text

\* C16: the effective identity is the bot name for a bot with isGoodBot true
\* and a name; '<bot name or "Unknown Bad Bot"> (<current address>)' for a
\* bot with isGoodBot false ('No IP' standing for an address the record does
\* not have); and the record's own distinct id in every other case.
C16_IdentitySelection ==
    Planned =>
        LET a == plan.analysis
            id == plan.event.distinct_id
        IN  IF a.isBot /\ a.isGoodBot = "true" /\ a.botName # None
            THEN id = a.botName
            ELSE IF a.isBot /\ a.isGoodBot = "false"
            THEN id = (IF a.botName # None THEN a.botName ELSE "Unknown Bad Bot")
                        \o " (" \o AddressPart \o ")"
            ELSE id = row.distinctId

\* C16: a bad bot without a usable name, seen from 0.0.0.6
C16_UnnamedBadBot ==
    /\ phase = "planned"
    /\ plan.analysis.isBot
    /\ plan.analysis.isGoodBot = "false"
    /\ plan.event.distinct_id = "Unknown Bad Bot (0.0.0.6)"

\* C17: every emitted event is either a $identify whose distinct_id differs
\* from the record's distinct id and whose $anon_distinct_id is that id, or a
\* $set whose distinct_id is the record's distinct id and whose patch is not
\* empty; a record with an empty patch and an unchanged identity emits none.
C17_EventWellFormed ==
    Planned =>
        LET e == plan.event
        IN  /\ plan.emits =>
                \/ /\ e.event = "$identify"
                   /\ e.distinct_id # row.distinctId
                   /\ e.anon_distinct_id = row.distinctId
                \/ /\ e.event = "$set"
                   /\ e.distinct_id = row.distinctId
                   /\ e.anon_distinct_id = None
                   /\ DOMAIN e.set # {}
            /\ (DOMAIN plan.filteredProps = {} /\ e.distinct_id = row.distinctId)
                   => ~plan.emits

\* C17: the person abc-123 is merged into Googlebot by a $identify
C17_IdentifyAsGooglebot ==
    /\ phase = "planned"
    /\ plan.emits
    /\ plan.event.event = "$identify"
    /\ plan.event.distinct_id = "Googlebot"
    /\ plan.event.anon_distinct_id = "abc-123"

\* true = 1 = "true" = "1", false = 0 = "false" = "0", and equal values
LooselyEqual(k, a, b) ==
    \/ a = b
    \/ /\ k \in {"is_bot", "is_good_bot"}
       /\ \/ LooksTrue(a) /\ LooksTrue(b)
          \/ LooksFalse(a) /\ LooksFalse(b)

\* the stored field that stands against a candidate property
StoredField(k) ==
    CASE k = "is_bot" -> row.isBotProp
      [] k = "is_good_bot" -> row.existingIsGoodBot
      [] k = "datacenter" -> row.existingDatacenter
      [] k = "$initial_ip" -> row.existingInitialIp
      [] k = "$latest_ip" -> row.existingLatestIp
      [] k = "$latest_nonproxy_ip" -> row.existingLatestNonProxyIp

StoredNames ==
    {"is_bot", "is_good_bot", "datacenter", "$initial_ip", "$latest_ip",
     "$latest_nonproxy_ip"}

\* C18: a candidate property that has a stored field, and whose computed
\* value equals the stored one under the loose equivalence, is not in the patch.
C18_RedundancyFilter ==
    Planned =>
        \A k \in StoredNames :
            LooselyEqual(k, Props(plan.analysis, row)[k], StoredField(k))
                => k \notin DOMAIN plan.filteredProps

\* C18: is_bot computed true against a stored 1, and is_good_bot computed
\* false against a stored '0': neither is sent, while bot_name is
C18_LooseMatchesDropped ==
    /\ phase = "planned"
    /\ plan.analysis.isBot
    /\ plan.analysis.isGoodBot = "false"
    /\ row.isBotProp = "1"
    /\ row.existingIsGoodBot = "'0'"
    /\ "is_bot" \notin DOMAIN plan.filteredProps
    /\ "is_good_bot" \notin DOMAIN plan.filteredProps
    /\ "bot_name" \in DOMAIN plan.filteredProps

\* C19: for a record whose stored initial address differs from its current
\* one, the final classification is a bot whenever that of either address
\* is, and a datacenter whenever that of either address is.
C19_FallbackNeverForgets ==
    (Planned /\ row.existingInitialIp.parts # 0
             /\ row.existingInitialIp # row.processedIp) =>
        LET current == checkBot(singleIPs, sortedRanges, row.processedIp, row.userAgent)
            initial == checkBot(singleIPs, sortedRanges, row.existingInitialIp, row.userAgent)
        IN  /\ (current.isBot \/ initial.isBot) => plan.analysis.isBot
            /\ (current.isDatacenter \/ initial.isDatacenter)
                  => plan.analysis.isDatacenter

(***************************************************************************)
(* Claims about checkBot's two lookups, checked under SpecIndex            *)
(***************************************************************************)
\* the name checkBot reports for an entry: none for the generic names
ReportedName(e) == IF Falsy(e.name) \/ e.name \in untaggedNames THEN None ELSE e.name

BothMatched == lookup.done /\ lookup.single # NoEntry /\ lookup.range # NoEntry

\* C20: when an address has an exact entry and a containing range entry and
\* at least one of them is a bot entry, checkBot returns isBot = TRUE with
\* the name of (one of) the bot entries; when one of the two is a datacenter
\* entry and the bot entry has no datacenter field, the datacenter's name is
\* returned as datacenterName.
C20_ExactAndRangeCombined ==
    BothMatched =>
        LET both == {lookup.single, lookup.range}
            bots == {e \in both : e.type = "bot"}
            dcs == {e \in both : e.type = "datacenter"}
        IN  /\ bots # {} =>
                /\ lookup.result.isBot
                /\ \E b \in bots : lookup.result.botName = ReportedName(b)
            /\ \A d \in dcs, b \in bots :
                  Falsy(b.datacenter) =>
                      lookup.result.datacenterName = ReportedName(d)

(***************************************************************************)
(* Claims about the names checkBot reports, checked under SpecIndex        *)
(***************************************************************************)
\* the entry checkBot works on for the last lookup
Matched == IpMatch(lookup.single, lookup.range)

HasSentinel(e) == e.name = "Unknown" \/ e.category = "Uncategorized"

IsSortedByStart(ranges) ==
    \A i, j \in 1..Len(ranges) : i < j => ranges[i].start <= ranges[j].start

\* C22: a lookup is made only when every addEntry call is over and the
\* range list has been sorted; after the sort no addEntry changes the index;
\* and at every lookup the range list is ascending by start.
C22_FreezeBarrier ==
    [][/\ lookup' # lookup =>
            /\ frozen
            /\ IsSortedByStart(sortedRanges)
            /\ UNCHANGED <<singleIPs, sortedRanges, feed>>
       /\ frozen =>
            /\ frozen'
            /\ UNCHANGED <<singleIPs, sortedRanges, feed>>
       /\ frozen' => IsSortedByStart(sortedRanges')]_vars

\* ranges arrived in descending order of start and a lookup found one
C22_LookupAfterUnorderedIngest ==
    /\ frozen
    /\ lookup.done
    /\ lookup.range # NoEntry
    /\ Len(sortedRanges) >= 2
    /\ \E i, j \in 1..Len(feed) :
          /\ i < j
          /\ feed[i].range.form = "cidr" /\ feed[i].range.numeric
          /\ feed[j].range.form = "cidr" /\ feed[j].range.numeric
          /\ RangeStart(feed[i].range.ip, feed[i].range.bits)
                > RangeStart(feed[j].range.ip, feed[j].range.bits)

(***************************************************************************)
(* Claims about malformed scopes, checked under SpecIndex                  *)
(***************************************************************************)
\* a scope whose address part is not a 4-octet address, or whose prefix
\* length parseInt does not read
Malformed(scope) ==
    /\ scope.form \in {"single", "cidr"}
    /\ (scope.ip.parts # 4 \/ (scope.form = "cidr" /\ ~scope.numeric))

WellFormedCalls == SelectSeq(feed, LAMBDA in : ~Malformed(in.range))

\* C23 (as claimed): the addEntry calls with a malformed scope leave no
\* trace: the exact index and the range list are the ones the other calls
\* alone produce, so that every lookup answers as if the malformed scopes
\* had never been ingested.
C23_MalformedScopesDropped ==
    LET clean == Ingest(WellFormedCalls)
    IN  /\ singleIPs = clean.map
        /\ sortedRanges = IF frozen THEN SortByStart(clean.ranges) ELSE clean.ranges
        /\ lookup.done =>
              lookup.result = checkBot(clean.map, SortByStart(clean.ranges),
                                       lookup.ip, NoUserAgent)

(***************************************************************************)
(* Claims about merge, checked under SpecIndex                             *)
(***************************************************************************)
\* the entry an index (map, ranges) holds for the scope of an addEntry call
EntryAt(map, ranges, in) ==
    LET start == RangeStart(in.range.ip, in.range.bits)
        idx == FindIndex(ranges, start, RangeEnd(start, in.range.bits))
    IN  IF in.range.form = "single"
        THEN SingleGet(map, in.range.ip)
        ELSE IF idx = 0 THEN NoEntry ELSE ranges[idx].data

\* C24: once a scope (an exact address or an exact (start, end) range) holds
\* a bot entry with a specific name, every later addEntry of a bot for the
\* same scope leaves the entry's name, category and rating as they were.
C24_FirstNamedBotWins ==
    [][\A in \in FeedEntries :
          (/\ feed' = Append(feed, in)
           /\ in.type = "bot"
           /\ IsStoredScope(in.range)
           /\ EntryAt(singleIPs, sortedRanges, in).type = "bot"
           /\ ~isGeneric(EntryAt(singleIPs, sortedRanges, in).name))
          => /\ EntryAt(singleIPs', sortedRanges', in).name
                  = EntryAt(singleIPs, sortedRanges, in).name
             /\ EntryAt(singleIPs', sortedRanges', in).category
                  = EntryAt(singleIPs, sortedRanges, in).category
             /\ EntryAt(singleIPs', sortedRanges', in).rating
                  = EntryAt(singleIPs, sortedRanges, in).rating]_vars

\* Googlebot, then Bingbot for the same address: the entry is still
\* Googlebot's
C24_GooglebotKeptAgainstLaterBots ==
    /\ Len(feed) = 2
    /\ feed[1] = Googlebot(SingleScope(A5))
    /\ feed[2] = Bingbot(SingleScope(A5))
    /\ SingleGet(singleIPs, A5).name = "Googlebot"
    /\ SingleGet(singleIPs, A5).category = "Search Engine"
    /\ SingleGet(singleIPs, A5).source = "Official-Source"

(***************************************************************************)
(* Claims about the order of the pipeline's steps, checked under Spec      *)
(***************************************************************************)
NothingInFlight ==
    /\ \A i \in 1..Len(fetches) : fetches[i].result # "pending"
    /\ \A i \in 1..Len(sent) : sent[i].outcome # "pending"

\* C25: a page is asked for only when every row of the page before has been
\* processed and neither a fetch nor a write is in flight, so that there are
\* never two fetches in flight; and the buffer is emptied only in the step in
\* which the sendBatch call that was handed its events comes back, the write
\* having succeeded or failed for good (or been skipped in a dry run).
C25_PipelineSequential ==
    [][/\ Len(fetches') > Len(fetches) =>
            /\ page = <<>>
            /\ NothingInFlight
            /\ Len(fetches') = Len(fetches) + 1
       /\ Cardinality({i \in 1..Len(fetches') : fetches'[i].result = "pending"}) <= 1
       /\ (eventBatch # <<>> /\ eventBatch' = <<>>) =>
            /\ sent # <<>>
            /\ sent[Len(sent)].batch = eventBatch
            /\ sent[Len(sent)].outcome = "pending"
            /\ Len(sent') = Len(sent)
            /\ sent'[Len(sent)].outcome
                  = IF isDryRun THEN "dry-run"
                    ELSE IF call'.pc = "returned" THEN "written" ELSE "failed"
            /\ call'.pc # "loop"]_vars

\* a batch was written after retries, the buffer was emptied, and the next
\* page is being fetched
C25_NextFetchAfterRetriedWrite ==
    /\ pc = "fetching"
    /\ Len(fetches) = 2
    /\ Len(sent) = 1
    /\ sent[1].outcome = "written"
    /\ sent[1].posts > 1
    /\ eventBatch = <<>>

(***************************************************************************)
(* Claims about the order of arrival of the feeds, checked under SpecIndex *)
(***************************************************************************)
\* the index the addEntry calls of the feed build when they arrive in the
\* order p, sorted
IndexInOrder(p) ==
    LET built == Ingest([i \in 1..Len(feed) |-> feed[p[i]]])
    IN  [map |-> built.map, ranges |-> SortByStart(built.ranges)]

\* C26 (as claimed): for the addEntry calls that were made, every order of
\* arrival gives the same sorted index, and so the same result of checkBot
\* for every address.
C26_ArrivalOrderIrrelevant ==
    frozen =>
        \A p \in Permutations(1..Len(feed)) :
            /\ IndexInOrder(p).map = singleIPs
            /\ IndexInOrder(p).ranges = sortedRanges
            /\ \A ip \in Probes :
                  checkBot(IndexInOrder(p).map, IndexInOrder(p).ranges, ip, NoUserAgent)
                      = checkBot(singleIPs, sortedRanges, ip, NoUserAgent)

(***************************************************************************)
(* Claims about the patch, checked under SpecPlan                          *)
(***************************************************************************)
\* the value computed for a property that has a stored field
Computed(k) ==
    IF k = "$latest_ip" THEN row.processedIp ELSE Props(plan.analysis, row)[k]

IsNull(k, v) == IF k = "$latest_ip" THEN v.parts = 0 ELSE v \in {"null", None}

\* C27 (as claimed): for each of is_bot, is_good_bot, datacenter and the
\* latest address, when the computed value is not null and the stored field
\* is absent or holds another value, the property is in the patch with the
\* computed value.
C27_PatchComplete ==
    Planned =>
        \A k \in {"is_bot", "is_good_bot", "datacenter", "$latest_ip"} :
            (/\ ~IsNull(k, Computed(k))
             /\ (IsNull(k, StoredField(k)) \/ ~LooselyEqual(k, Computed(k), StoredField(k))))
            => /\ k \in DOMAIN plan.filteredProps
               /\ plan.filteredProps[k] = Computed(k)

\* C28 (as claimed): a record whose stored is_bot flag is true never gets a
\* patch that sets is_bot to false, whatever its current address, its
\* initial address and its user agent.
C28_BotStatusNeverRegressed ==
    (Planned /\ LooksTrue(row.isBotProp)) =>
        ~(/\ "is_bot" \in DOMAIN plan.filteredProps
          /\ plan.filteredProps["is_bot"] = "false")

(***************************************************************************)
(* Claims about the source of merged entries, checked under SpecIndex      *)
(***************************************************************************)
\* the two ways merge() composes the source of an entry with an incoming one
Composed(source, incoming) ==
    {source \o " + " \o incoming, source \o " (DC: " \o incoming \o ")"}

MergedFields == {"type", "name", "category", "rating", "datacenter"}

\* C29 (as claimed): whenever an addEntry call for a scope that already has
\* an entry changes that entry's type, name, category, rating or datacenter
\* field, the entry's source becomes its former source composed with the
\* source of the call; and every entry of the index has a source.
C29_ProvenanceAccumulates ==
    [][/\ \A in \in FeedEntries :
            (/\ feed' = Append(feed, in)
             /\ IsStoredScope(in.range)
             /\ EntryAt(singleIPs, sortedRanges, in) # NoEntry
             /\ \E f \in MergedFields :
                   EntryAt(singleIPs', sortedRanges', in)[f]
                       # EntryAt(singleIPs, sortedRanges, in)[f])
            => EntryAt(singleIPs', sortedRanges', in).source
                  \in Composed(EntryAt(singleIPs, sortedRanges, in).source, in.source)
       /\ \A k \in DOMAIN singleIPs' : ~Falsy(singleIPs'[k].source)
       /\ \A i \in 1..Len(sortedRanges') : ~Falsy(sortedRanges'[i].data.source)]_vars

=============================================================================
